---- MODULE Spec2Model ----
(***************************************************************************)
(* A model of src/main.py: the loader of an ETL synchronisation config.   *)
(*                                                                         *)
(* ETLSyncConfig.__init__ is modelled statement by statement (one action   *)
(* per statement group, the list comprehension one action per item), its   *)
(* static helpers _db_info, _table_info and _load_environment_config as    *)
(* operators that return either a value or the exception they raise.       *)
(*                                                                         *)
(* Python values are tagged records [t, v]; a dict is the sequence of its  *)
(* (key, value) pairs in insertion order, as Python keeps it.  Strings are *)
(* ASCII: the Russian exception messages of the source are transliterated. *)
(***************************************************************************)
EXTENDS Integers, Sequences, FiniteSets, TLC

VARIABLES
    path,              \* __init__'s argument path: a str or None
    env,               \* __init__'s argument env: a member of ENV
    file,              \* what the file system holds at the path that is opened
    pc,                \* the statement __init__ is at, then "done" or "raised"
    self_path,         \* self._path
    config,            \* the local _config
    self_source,       \* self._source
    self_destination,  \* self._destination
    items,             \* the list comprehension's iterable, as a sequence
    acc,               \* the list the comprehension is building
    self_mappings,     \* self._mappings
    exc,               \* the exception that left __init__, or NoExc
    result,            \* what the caller's call ETLSyncConfig(...) evaluated to
    trace,             \* the steps of __init__ that have run, in order
    loaded,            \* what the accessor mappings returned right after the load
    ops,               \* the number of operations the caller has applied since
    fn,                \* the helper a direct call applies ("" in a load)
    fn_arg,            \* the argument of that call
    fn_ret             \* its outcome

vars == <<path, env, file, pc, self_path, config, self_source, self_destination,
          items, acc, self_mappings, exc, result, trace, loaded, ops,
          fn, fn_arg, fn_ret>>

---------------------------------------------------------------------------
(* Bounds of the model.                                                    *)

MaxMappings == 2
MaxCols == 2
MaxCallerOps == 2

---------------------------------------------------------------------------
(* Python values.                                                          *)

PyNone == [t |-> "none", v |-> 0]
PyStr(s) == [t |-> "str", v |-> s]
PyInt(n) == [t |-> "int", v |-> n]
PyBool(b) == [t |-> "bool", v |-> b]
PyList(s) == [t |-> "list", v |-> s]
PyDict(pairs) == [t |-> "dict", v |-> pairs]

\* type(x).__name__
TypeName(x) ==
    CASE x.t = "none" -> "NoneType"
      [] x.t = "str" -> "str"
      [] x.t = "int" -> "int"
      [] x.t = "bool" -> "bool"
      [] x.t = "list" -> "list"
      [] x.t = "dict" -> "dict"

\* bool(x), as `if not src` evaluates it
Truthy(x) ==
    CASE x.t = "none" -> FALSE
      [] x.t = "bool" -> x.v
      [] x.t = "int" -> x.v # 0
      [] x.t = "str" -> x.v # ""
      [] x.t = "list" -> Len(x.v) > 0
      [] x.t = "dict" -> Len(x.v) > 0

\* isinstance(x, list) and isinstance(x, dict)
IsList(x) == x.t = "list"
IsDict(x) == x.t = "dict"

\* key in d, d[key] and d.get(key, default), for a dict d
HasKey(d, key) == \E i \in 1..Len(d.v) : d.v[i][1] = key
GetItem(d, key) == d.v[CHOOSE i \in 1..Len(d.v) : d.v[i][1] = key][2]
Get(d, key, default) == IF HasKey(d, key) THEN GetItem(d, key) ELSE default
Keys(d) == {d.v[i][1] : i \in 1..Len(d.v)}

\* str(n) for an int n
DigitChar(d) == SubSeq("0123456789", d + 1, d + 1)

RECURSIVE NatToStr(_)
NatToStr(n) == IF n < 10 THEN DigitChar(n) ELSE NatToStr(n \div 10) \o DigitChar(n % 10)

IntToStr(n) == IF n < 0 THEN "-" \o NatToStr(-n) ELSE NatToStr(n)

\* repr(x); a str of the model holds no quote, backslash or control character
RECURSIVE Repr(_)
RECURSIVE JoinRepr(_)
RECURSIVE JoinPairs(_)
JoinRepr(s) ==
    IF Len(s) = 0 THEN ""
    ELSE IF Len(s) = 1 THEN Repr(s[1])
    ELSE Repr(s[1]) \o ", " \o JoinRepr(Tail(s))

JoinPairs(s) ==
    IF Len(s) = 0 THEN ""
    ELSE IF Len(s) = 1 THEN "'" \o s[1][1] \o "': " \o Repr(s[1][2])
    ELSE "'" \o s[1][1] \o "': " \o Repr(s[1][2]) \o ", " \o JoinPairs(Tail(s))

Repr(x) ==
    CASE x.t = "none" -> "None"
      [] x.t = "bool" -> IF x.v THEN "True" ELSE "False"
      [] x.t = "int" -> IntToStr(x.v)
      [] x.t = "str" -> "'" \o x.v \o "'"
      [] x.t = "list" -> "[" \o JoinRepr(x.v) \o "]"
      [] x.t = "dict" -> "{" \o JoinPairs(x.v) \o "}"

\* str(x)
Str(x) == IF x.t = "str" THEN x.v ELSE Repr(x)

\* tuple(map(str, xs)) for a list xs
MapStr(xs) == [i \in 1..Len(xs.v) |-> Str(xs.v[i])]

\* s.lower() for an ASCII str
LowerChar(c) ==
    IF \E i \in 1..26 : SubSeq("ABCDEFGHIJKLMNOPQRSTUVWXYZ", i, i) = c
    THEN LET i == CHOOSE j \in 1..26 : SubSeq("ABCDEFGHIJKLMNOPQRSTUVWXYZ", j, j) = c
         IN SubSeq("abcdefghijklmnopqrstuvwxyz", i, i)
    ELSE c

RECURSIVE Lower(_)
Lower(s) == IF Len(s) = 0 THEN "" ELSE LowerChar(Head(s)) \o Lower(Tail(s))

---------------------------------------------------------------------------
(* Outcomes of a call: a returned value or a raised exception.             *)

Ok(val) == [ok |-> TRUE, val |-> val]
Raise(type, arg) == [ok |-> FALSE, exc |-> [type |-> type, arg |-> arg]]
NoExc == [type |-> "", arg |-> ""]

\* x.get where x has no attribute get
NoGet(x) == Raise("AttributeError", "'" \o TypeName(x) \o "' object has no attribute 'get'")

---------------------------------------------------------------------------
(* class ENV: the members, each with its name and its value.               *)

ENV ==
    { [name |-> "TEST", value |-> "test"],
      [name |-> "DEV", value |-> "development"],
      [name |-> "PROD", value |-> "production"],
      [name |-> "LOCAL", value |-> "local"] }

---------------------------------------------------------------------------
(* The helpers of ETLSyncConfig.                                           *)

\* __init__, the first statement: self._path from path and env
ResolvePath_value(p, e) == IF p.t = "none" THEN Lower(e.value) \o ".transform.yml" ELSE p.v

ResolvePath(p, e) == IF p.t = "none" THEN Lower(e.name) \o ".transform.yml" ELSE p.v

\* _load_environment_config(path), with f what the file system holds at path
LoadEnvironmentConfig(p, f) ==
    IF f.kind = "missing" THEN Raise("FileNotFoundError", "Konfig " \o p \o " ne najden")
    ELSE IF f.kind = "dir" THEN Raise("IsADirectoryError", p)
    ELSE IF f.kind = "unparsable" THEN Raise("YAMLError", p)
    ELSE IF ~IsDict(f.doc) THEN Raise("ETLSyncConfigException", "Oshibka formata fajla: " \o p)
    ELSE Ok(f.doc)

\* _db_info(item): the keyword arguments are evaluated in the order written
DbInfo_userFirst(item) ==
    IF ~IsDict(item) THEN NoGet(item)
    ELSE IF ~HasKey(item, "user") THEN Raise("KeyError", "user")
    ELSE IF ~HasKey(item, "database") THEN Raise("KeyError", "database")
    ELSE IF ~HasKey(item, "password") THEN Raise("KeyError", "password")
    ELSE Ok([ host |-> Str(Get(item, "host", PyStr("127.0.0.1"))),
              port |-> Str(Get(item, "post", PyInt(5432))),
              database |-> Str(GetItem(item, "database")),
              user |-> Str(GetItem(item, "user")),
              password |-> Str(GetItem(item, "password")) ])

DbInfo_localhost(item) ==
    IF ~IsDict(item) THEN NoGet(item)
    ELSE IF ~HasKey(item, "database") THEN Raise("KeyError", "database")
    ELSE IF ~HasKey(item, "user") THEN Raise("KeyError", "user")
    ELSE IF ~HasKey(item, "password") THEN Raise("KeyError", "password")
    ELSE Ok([ host |-> Str(Get(item, "host", PyStr("localhost"))),
              port |-> Str(Get(item, "post", PyInt(5432))),
              database |-> Str(GetItem(item, "database")),
              user |-> Str(GetItem(item, "user")),
              password |-> Str(GetItem(item, "password")) ])

DbInfo(item) ==
    IF ~IsDict(item) THEN NoGet(item)
    ELSE IF ~HasKey(item, "database") THEN Raise("KeyError", "database")
    ELSE IF ~HasKey(item, "user") THEN Raise("KeyError", "user")
    ELSE IF ~HasKey(item, "password") THEN Raise("KeyError", "password")
    ELSE Ok([ host |-> Str(Get(item, "host", PyStr("127.0.0.1"))),
              port |-> Str(Get(item, "post", PyInt(5432))),
              database |-> Str(GetItem(item, "database")),
              user |-> Str(GetItem(item, "user")),
              password |-> Str(GetItem(item, "password")) ])

\* _table_info(item)
TableInfo_noPkCheck(item) ==
    IF ~IsDict(item) THEN NoGet(item)
    ELSE IF ~IsList(Get(item, "columns", PyList(<<>>))) THEN Raise("ETLSyncConfigException", "columns")
    ELSE IF ~HasKey(item, "table") THEN Raise("KeyError", "table")
    ELSE Ok([ schema |-> Str(Get(item, "schema", PyStr("public"))),
              table |-> Str(GetItem(item, "table")),
              columns |-> MapStr(Get(item, "columns", PyList(<<>>))),
              pk |-> IF IsList(Get(item, "pk", PyList(<<>>)))
                     THEN MapStr(Get(item, "pk", PyList(<<>>)))
                     ELSE <<>> ])

TableInfo(item) ==
    IF ~IsDict(item) THEN NoGet(item)
    ELSE IF ~IsList(Get(item, "columns", PyList(<<>>))) THEN Raise("ETLSyncConfigException", "columns")
    ELSE IF ~IsList(Get(item, "pk", PyList(<<>>))) THEN Raise("ETLSyncConfigException", "pk")
    ELSE IF ~HasKey(item, "table") THEN Raise("KeyError", "table")
    ELSE Ok([ schema |-> Str(Get(item, "schema", PyStr("public"))),
              table |-> Str(GetItem(item, "table")),
              columns |-> MapStr(Get(item, "columns", PyList(<<>>))),
              pk |-> MapStr(Get(item, "pk", PyList(<<>>))) ])

\* __init__, one element of the list comprehension: SyncConfigMapping(source=...,
\* destination=...) of one item of the mappings
MappingOf(item) ==
    IF ~IsDict(item) THEN NoGet(item)
    ELSE LET s == TableInfo(Get(item, "source", PyDict(<<>>)))
         IN IF ~s.ok THEN s
            ELSE LET d == TableInfo(Get(item, "destination", PyDict(<<>>)))
                 IN IF ~d.ok THEN d
                    ELSE Ok([source |-> s.val, destination |-> d.val])

\* iter(x), as `for item in x` takes it: the items, or TypeError
Iter(x) ==
    CASE x.t = "list" -> Ok(x.v)
      [] x.t = "dict" -> Ok([i \in 1..Len(x.v) |-> PyStr(x.v[i][1])])
      [] x.t = "str" -> Ok([i \in 1..Len(x.v) |-> PyStr(SubSeq(x.v, i, i))])
      [] OTHER -> Raise("TypeError", "'" \o TypeName(x) \o "' object is not iterable")

\* __init__, the source and destination statements: the section, the check that it
\* is not empty, then _db_info
Section_noCheck(cfg, key, msg) == DbInfo(Get(cfg, key, PyDict(<<>>)))

Section(cfg, key, msg) ==
    LET sec == Get(cfg, key, PyDict(<<>>))
    IN IF ~Truthy(sec) THEN Raise("ETLSyncConfigException", msg)
       ELSE DbInfo(sec)

\* the list comprehension's result so far, with one more element
AccAdd_prepend(a, m) == <<m>> \o a

AccAdd(a, m) == Append(a, m)

---------------------------------------------------------------------------
(* The inputs: the arguments of __init__ and the content of the file.      *)

\* a key that a section does not hold
Absent == [t |-> "absent", v |-> 0]

\* the dict of the pairs whose value is not Absent, in the order given
DictOf(pairs) == PyDict(SelectSeq(pairs, LAMBDA kv : kv[2].t # "absent"))

\* the lists of at most n elements of S
ListsOf(S, n) == UNION { [1..k -> S] : k \in 0..n }

Paths == { PyNone, PyStr("etl.yml") }

ValidEndpoint(db) ==
    DictOf(<< <<"database", PyStr(db)>>, <<"user", PyStr("u")>>, <<"password", PyStr("p")>> >>)

SourceValues ==
    { Absent, PyNone, PyDict(<<>>), PyStr("db"), ValidEndpoint("src_db"),
      DictOf(<< <<"user", PyStr("u")>>, <<"password", PyStr("p")>> >>) }

DestinationValues ==
    { Absent, PyNone, PyDict(<<>>), PyStr("db"), ValidEndpoint("dst_db"),
      DictOf(<< <<"database", PyStr("dst_db")>>, <<"host", PyStr("h")>> >>) }

ItemA ==
    DictOf(<< <<"source", DictOf(<< <<"table", PyStr("a")>>,
                                    <<"columns", PyList(<<PyStr("id"), PyStr("name")>>)>>,
                                    <<"pk", PyList(<<PyStr("id")>>)>> >>)>>,
              <<"destination", DictOf(<< <<"schema", PyStr("dw")>>,
                                         <<"table", PyStr("a2")>>,
                                         <<"columns", PyList(<<PyStr("id"), PyStr("name")>>)>> >>)>> >>)

ItemB ==
    DictOf(<< <<"source", DictOf(<< <<"table", PyStr("b")>> >>)>>,
              <<"destination", DictOf(<< <<"table", PyStr("b2")>>,
                                         <<"pk", PyList(<<PyInt(1)>>)>> >>)>> >>)

ItemBadColumns ==
    DictOf(<< <<"source", DictOf(<< <<"columns", PyStr("not_a_list")>> >>)>>,
              <<"destination", DictOf(<< <<"table", PyStr("c")>> >>)>> >>)

ItemNoDestination ==
    DictOf(<< <<"source", DictOf(<< <<"table", PyStr("d")>> >>)>> >>)

ItemValues == { ItemA, ItemB, ItemBadColumns, ItemNoDestination, PyStr("x") }

MappingsValues ==
    { Absent, PyNone } \cup { PyList(l) : l \in ListsOf(ItemValues, MaxMappings) }

Documents ==
    { PyNone, PyStr("text"), PyList(<<PyStr("source")>>) }
    \cup { DictOf(<< <<"source", s>>, <<"destination", d>>, <<"mappings", m>> >>) :
             s \in SourceValues, d \in DestinationValues, m \in MappingsValues }

Files ==
    { [kind |-> "missing", doc |-> PyNone],
      [kind |-> "dir", doc |-> PyNone],
      [kind |-> "unparsable", doc |-> PyNone] }
    \cup { [kind |-> "file", doc |-> d] : d \in Documents }

---------------------------------------------------------------------------
(* ETLSyncConfig.__init__ and the caller that holds its result.            *)

Unset == [t |-> "unset", v |-> 0]
NoRet == [ok |-> FALSE, exc |-> NoExc]
Step(name, i) == [step |-> name, i |-> i]

\* the statement that follows each statement of __init__
After_destinationFirst(step) ==
    CASE step = "resolve" -> "load"
      [] step = "load" -> "destination"
      [] step = "destination" -> "source"
      [] step = "source" -> "mappings"
      [] step = "mappings" -> "item"

After(step) ==
    CASE step = "resolve" -> "load"
      [] step = "load" -> "source"
      [] step = "source" -> "destination"
      [] step = "destination" -> "mappings"
      [] step = "mappings" -> "item"

Init ==
    /\ path \in Paths
    /\ env \in ENV
    /\ file \in Files
    /\ pc = "resolve"
    /\ self_path = ""
    /\ config = PyNone
    /\ self_source = Unset
    /\ self_destination = Unset
    /\ items = <<>>
    /\ acc = <<>>
    /\ self_mappings = <<>>
    /\ exc = NoExc
    /\ result = "none"
    /\ trace = <<>>
    /\ loaded = <<>>
    /\ ops = 0
    /\ fn = ""
    /\ fn_arg = PyNone
    /\ fn_ret = NoRet

\* an exception leaves __init__: the call yields no object
Raised(e) ==
    /\ pc' = "raised"
    /\ exc' = e

Resolve ==
    /\ pc = "resolve"
    /\ self_path' = ResolvePath(path, env)
    /\ pc' = After("resolve")
    /\ trace' = Append(trace, Step("resolve", 0))
    /\ UNCHANGED <<path, env, file, config, self_source, self_destination, items, acc,
                   self_mappings, exc, result, loaded, ops, fn, fn_arg, fn_ret>>

Load ==
    /\ pc = "load"
    /\ trace' = Append(trace, Step("load", 0))
    /\ LET r == LoadEnvironmentConfig(self_path, file)
       IN IF r.ok
          THEN /\ config' = r.val
               /\ pc' = After("load")
               /\ exc' = exc
          ELSE /\ Raised(r.exc)
               /\ config' = config
    /\ UNCHANGED <<path, env, file, self_path, self_source, self_destination, items, acc,
                   self_mappings, result, loaded, ops, fn, fn_arg, fn_ret>>

Source ==
    /\ pc = "source"
    /\ trace' = Append(trace, Step("source", 0))
    /\ LET r == Section(config, "source", "ne ukazan istochnik")
       IN IF r.ok
          THEN /\ self_source' = r.val
               /\ pc' = After("source")
               /\ exc' = exc
          ELSE /\ Raised(r.exc)
               /\ self_source' = self_source
    /\ UNCHANGED <<path, env, file, self_path, config, self_destination, items, acc,
                   self_mappings, result, loaded, ops, fn, fn_arg, fn_ret>>

Destination ==
    /\ pc = "destination"
    /\ trace' = Append(trace, Step("destination", 0))
    /\ LET r == Section(config, "destination", "ne ukazan poluchatel")
       IN IF r.ok
          THEN /\ self_destination' = r.val
               /\ pc' = After("destination")
               /\ exc' = exc
          ELSE /\ Raised(r.exc)
               /\ self_destination' = self_destination
    /\ UNCHANGED <<path, env, file, self_path, config, self_source, items, acc,
                   self_mappings, result, loaded, ops, fn, fn_arg, fn_ret>>

\* the list comprehension takes the iterator of _config.get("mappings", [])
BeginMappings ==
    /\ pc = "mappings"
    /\ trace' = Append(trace, Step("mappings", 0))
    /\ LET r == Iter(Get(config, "mappings", PyList(<<>>)))
       IN IF r.ok
          THEN /\ items' = r.val
               /\ pc' = After("mappings")
               /\ exc' = exc
          ELSE /\ Raised(r.exc)
               /\ items' = items
    /\ UNCHANGED <<path, env, file, self_path, config, self_source, self_destination, acc,
                   self_mappings, result, loaded, ops, fn, fn_arg, fn_ret>>

\* the list comprehension builds the element of the next item
MapItem ==
    /\ pc = "item"
    /\ Len(acc) < Len(items)
    /\ trace' = Append(trace, Step("item", Len(acc) + 1))
    /\ LET r == MappingOf(items[Len(acc) + 1])
       IN IF r.ok
          THEN /\ acc' = AccAdd(acc, r.val)
               /\ pc' = pc
               /\ exc' = exc
          ELSE /\ Raised(r.exc)
               /\ acc' = acc
    /\ UNCHANGED <<path, env, file, self_path, config, self_source, self_destination, items,
                   self_mappings, result, loaded, ops, fn, fn_arg, fn_ret>>

\* the list is assigned to self._mappings, __init__ returns, and the caller reads
\* the accessor mappings for the first time
EndMappings ==
    /\ pc = "item"
    /\ Len(acc) = Len(items)
    /\ self_mappings' = acc
    /\ pc' = "done"
    /\ result' = "config"
    /\ loaded' = acc
    /\ UNCHANGED <<path, env, file, self_path, config, self_source, self_destination, items,
                   acc, exc, trace, ops, fn, fn_arg, fn_ret>>

\* The properties source, destination and mappings: each returns the attribute
\* itself, the list of mappings by reference.
SourceAccessor == self_source
DestinationAccessor == self_destination
MappingsAccessor == self_mappings

\* a SyncConfigMapping of the caller's own
CallerMapping ==
    [ source |-> [schema |-> "public", table |-> "x", columns |-> <<>>, pk |-> <<>>],
      destination |-> [schema |-> "public", table |-> "y", columns |-> <<>>, pk |-> <<>>] ]

\* the caller reads the three accessors
CallerRead ==
    /\ pc = "done"
    /\ ops < MaxCallerOps
    /\ ops' = ops + 1
    /\ UNCHANGED <<path, env, file, pc, self_path, config, self_source, self_destination,
                   items, acc, self_mappings, exc, result, trace, loaded, fn, fn_arg, fn_ret>>

\* the caller assigns to a property or to a field of a NamedTuple: AttributeError
\* in the caller, nothing changes
CallerSetField ==
    /\ pc = "done"
    /\ ops < MaxCallerOps
    /\ ops' = ops + 1
    /\ self_source' = SourceAccessor
    /\ self_destination' = DestinationAccessor
    /\ UNCHANGED <<path, env, file, pc, self_path, config, items, acc, self_mappings, exc,
                   result, trace, loaded, fn, fn_arg, fn_ret>>

\* the caller calls etl_config.mappings.append(m)
CallerAppend ==
    /\ pc = "done"
    /\ ops < MaxCallerOps
    /\ ops' = ops + 1
    /\ self_mappings' = Append(MappingsAccessor, CallerMapping)
    /\ UNCHANGED <<path, env, file, pc, self_path, config, self_source, self_destination,
                   items, acc, exc, result, trace, loaded, fn, fn_arg, fn_ret>>

\* the caller calls etl_config.mappings.pop()
CallerPop ==
    /\ pc = "done"
    /\ ops < MaxCallerOps
    /\ Len(MappingsAccessor) > 0
    /\ ops' = ops + 1
    /\ self_mappings' = SubSeq(MappingsAccessor, 1, Len(MappingsAccessor) - 1)
    /\ UNCHANGED <<path, env, file, pc, self_path, config, self_source, self_destination,
                   items, acc, exc, result, trace, loaded, fn, fn_arg, fn_ret>>

Next ==
    \/ Resolve
    \/ Load
    \/ Source
    \/ Destination
    \/ BeginMappings
    \/ MapItem
    \/ EndMappings
    \/ CallerRead
    \/ CallerSetField
    \/ CallerAppend
    \/ CallerPop

Spec == Init /\ [][Next]_vars

---------------------------------------------------------------------------
(* Direct calls of the static helpers _db_info and _table_info.            *)

EndpointSections ==
    { DictOf(<< <<"host", h>>, <<"post", po>>, <<"port", pt>>,
                <<"database", d>>, <<"user", u>>, <<"password", pw>> >>) :
        h \in { Absent, PyStr("db.example.org") },
        po \in { Absent, PyStr("6543"), PyInt(5433) },
        pt \in { Absent, PyInt(5433) },
        d \in { Absent, PyStr("sales"), PyInt(42) },
        u \in { Absent, PyStr("etl"), PyBool(TRUE) },
        pw \in { Absent, PyNone, PyList(<<PyStr("a"), PyInt(-7)>>) } }

ColumnLists == { PyList(l) : l \in ListsOf({ PyStr("id"), PyInt(10) }, MaxCols) }

TableSections ==
    { DictOf(<< <<"schema", sc>>, <<"table", tb>>, <<"columns", co>>, <<"pk", pk>> >>) :
        sc \in { Absent, PyStr("dw") },
        tb \in { Absent, PyStr("orders"), PyInt(7) },
        co \in { Absent, PyNone, PyStr("not_a_list"), PyDict(<<>>) } \cup ColumnLists,
        pk \in { Absent, PyStr("id"), PyInt(0) } \cup ColumnLists }

InitCall(f, args) ==
    /\ fn = f
    /\ fn_arg \in args
    /\ fn_ret = NoRet
    /\ pc = "call"
    /\ path = PyNone
    /\ env \in { e \in ENV : e.name = "LOCAL" }
    /\ file = [kind |-> "missing", doc |-> PyNone]
    /\ self_path = ""
    /\ config = PyNone
    /\ self_source = Unset
    /\ self_destination = Unset
    /\ items = <<>>
    /\ acc = <<>>
    /\ self_mappings = <<>>
    /\ exc = NoExc
    /\ result = "none"
    /\ trace = <<>>
    /\ loaded = <<>>
    /\ ops = 0

Call(f, ret) ==
    /\ pc = "call"
    /\ fn = f
    /\ fn_ret' = ret
    /\ pc' = "returned"
    /\ UNCHANGED <<path, env, file, self_path, config, self_source, self_destination, items,
                   acc, self_mappings, exc, result, trace, loaded, ops, fn, fn_arg>>

InitDbInfo == InitCall("_db_info", EndpointSections)
CallDbInfo == Call("_db_info", DbInfo(fn_arg))
SpecDbInfo == InitDbInfo /\ [][CallDbInfo]_vars

InitTableInfo == InitCall("_table_info", TableSections)
CallTableInfo == Call("_table_info", TableInfo(fn_arg))
SpecTableInfo == InitTableInfo /\ [][CallTableInfo]_vars

---------------------------------------------------------------------------
(* The error taxonomy: the kind of each exception the loader raises.       *)

Taxonomy == { "NotFound", "FormatError", "MissingSection", "MissingField", "InvalidShape" }

Kind(e) ==
    CASE e.type = "FileNotFoundError" -> "NotFound"
      [] e.type = "ETLSyncConfigException"
         /\ e.arg \in { "ne ukazan istochnik", "ne ukazan poluchatel" } -> "MissingSection"
      [] e.type = "ETLSyncConfigException" /\ e.arg \in { "columns", "pk" } -> "InvalidShape"
      [] e.type = "ETLSyncConfigException" -> "FormatError"
      [] e.type = "KeyError"
         /\ e.arg \in { "database", "user", "password", "table" } -> "MissingField"
      [] OTHER -> "Uncategorized"

Terminal == pc \in { "done", "raised" }

\* the document of the file, when the file holds a top-level mapping
HasDocument == file.kind = "file" /\ IsDict(file.doc)

---------------------------------------------------------------------------
(* C1: the order of the steps.                                             *)

\* Each step's outcome taken by itself, in the order path resolution, file load,
\* source, destination, the mappings' iterator, the items in document order.  The
\* steps after the load exist only for a document that is a mapping, the item
\* steps only for mappings that can be iterated.
PlanItems(doc) ==
    LET it == Iter(Get(doc, "mappings", PyList(<<>>)))
    IN << [step |-> Step("mappings", 0), r |-> it] >>
       \o (IF it.ok
           THEN [i \in 1..Len(it.val) |-> [step |-> Step("item", i), r |-> MappingOf(it.val[i])]]
           ELSE <<>>)

Plan ==
    LET p == IF path.t = "none" THEN self_path ELSE path.v
        ld == LoadEnvironmentConfig(p, file)
    IN << [step |-> Step("resolve", 0), r |-> Ok(p)], [step |-> Step("load", 0), r |-> ld] >>
       \o (IF ld.ok
           THEN << [step |-> Step("source", 0),
                    r |-> Section(file.doc, "source", "ne ukazan istochnik")],
                   [step |-> Step("destination", 0),
                    r |-> Section(file.doc, "destination", "ne ukazan poluchatel")] >>
                \o PlanItems(file.doc)
           ELSE <<>>)

Failing(plan) == { k \in 1..Len(plan) : ~plan[k].r.ok }
First(failing) == CHOOSE k \in failing : \A j \in failing : k <= j

\* C1: the steps run in the fixed order; when steps would fail, the exception that
\* leaves the load is that of the earliest failing step, no step after it has run,
\* and the call has produced no configuration object; the load completes, with an
\* object, only when no step fails.
C1_FirstFailureAborts ==
    pc # "resolve" =>
        LET plan == Plan
            failing == Failing(plan)
        IN /\ Len(trace) <= Len(plan)
           /\ \A k \in 1..Len(trace) : trace[k] = plan[k].step
           /\ failing # {} => Len(trace) <= First(failing)
           /\ pc = "raised" =>
                 /\ failing # {}
                 /\ Len(trace) = First(failing)
                 /\ exc = plan[First(failing)].r.exc
                 /\ result = "none"
           /\ pc = "done" => failing = {} /\ Len(trace) = Len(plan) /\ exc = NoExc
           /\ result = "config" <=> pc = "done"

\* a load in which the source step and two later steps would fail has raised
C1_Witness ==
    /\ pc = "raised"
    /\ LET plan == Plan
           failing == Failing(plan)
       IN /\ Cardinality(failing) >= 3
          /\ plan[First(failing)].step = Step("source", 0)
          /\ \E k \in failing : plan[k].step.step = "item"

---------------------------------------------------------------------------
(* C2: every failure is of the taxonomy.                                   *)

\* C2: for a path that is missing or holds a parsed document, a load that fails
\* fails with an exception of one of the five kinds of the taxonomy.
C2_OnlyCategorizedFailures ==
    (pc = "raised" /\ file.kind \in { "missing", "file" }) => Kind(exc) \in Taxonomy

---------------------------------------------------------------------------
(* C4: the source and destination sections must be present and not empty.  *)

EmptyOrAbsent(doc, key) == ~HasKey(doc, key) \/ GetItem(doc, key) = PyDict(<<>>)
NonEmptySection(doc, key) ==
    HasKey(doc, key) /\ IsDict(GetItem(doc, key)) /\ Len(GetItem(doc, key).v) > 0
ValidSection(doc, key) ==
    NonEmptySection(doc, key) /\ { "database", "user", "password" } \subseteq Keys(GetItem(doc, key))

\* C4: a document without source, or with an empty one, fails with MissingSection;
\* so does one with a valid source whose destination is absent or empty; a document
\* whose source and destination are both non-empty sections does not.
C4_SectionPresence ==
    (Terminal /\ HasDocument) =>
        /\ EmptyOrAbsent(file.doc, "source") =>
              /\ pc = "raised"
              /\ exc = [type |-> "ETLSyncConfigException", arg |-> "ne ukazan istochnik"]
              /\ Kind(exc) = "MissingSection"
        /\ (ValidSection(file.doc, "source") /\ EmptyOrAbsent(file.doc, "destination")) =>
              /\ pc = "raised"
              /\ exc = [type |-> "ETLSyncConfigException", arg |-> "ne ukazan poluchatel"]
              /\ Kind(exc) = "MissingSection"
        /\ (NonEmptySection(file.doc, "source") /\ NonEmptySection(file.doc, "destination")) =>
              (pc = "done" \/ Kind(exc) # "MissingSection")

\* a load of a document with a valid source and `destination: {}` has raised
C4_Witness ==
    /\ pc = "raised"
    /\ HasDocument
    /\ ValidSection(file.doc, "source")
    /\ HasKey(file.doc, "destination")
    /\ GetItem(file.doc, "destination") = PyDict(<<>>)
    /\ Kind(exc) = "MissingSection"

---------------------------------------------------------------------------
(* C6: the path that is loaded.                                            *)

DefaultFiles ==
    { stem \o ".transform.yml" : stem \in { "test", "development", "production", "local" } }

\* C6 as stated: an explicit path is loaded verbatim; without one the path loaded
\* is {environment}.transform.yml with {environment} one of test, development,
\* production, local.
C6_DefaultPathFromValue ==
    pc # "resolve" =>
        /\ path.t = "str" => self_path = path.v
        /\ path.t = "none" => self_path \in DefaultFiles

\* the lowercased names of the members of ENV, written out
LoweredName(e) ==
    CASE e.name = "TEST" -> "test"
      [] e.name = "DEV" -> "dev"
      [] e.name = "PROD" -> "prod"
      [] e.name = "LOCAL" -> "local"

\* C6 as amended: an explicit path is loaded verbatim; without one the path loaded
\* is {name}.transform.yml with {name} the lowercased name of the member of ENV:
\* test, dev, prod, local.  The path loaded is the one a missing file is reported
\* under.
C6_DefaultPathFromName ==
    pc # "resolve" =>
        /\ path.t = "str" => self_path = path.v
        /\ path.t = "none" => self_path = LoweredName(env) \o ".transform.yml"
        /\ (pc = "raised" /\ exc.type = "FileNotFoundError") =>
              exc.arg = "Konfig "
                        \o (IF path.t = "str" THEN path.v ELSE LoweredName(env) \o ".transform.yml")
                        \o " ne najden"

\* a load without an explicit path, for ENV.DEV, has looked for dev.transform.yml
C6_Witness ==
    /\ path = PyNone
    /\ env.name = "DEV"
    /\ env.value = "development"
    /\ self_path = "dev.transform.yml"
    /\ pc = "raised"
    /\ exc.type = "FileNotFoundError"

---------------------------------------------------------------------------
(* C9: the mappings keep the order of the document.                        *)

\* the source table each valid item of the model names
SourceTableOf(item) == IF item = ItemA THEN "a" ELSE IF item = ItemB THEN "b" ELSE "?"

\* C9: right after a load of a valid document whose mappings are a sequence of n
\* entries (none when the key is absent), the loaded mappings are n elements, the
\* i-th the SyncConfigMapping of the i-th entry.
C9_MappingOrder ==
    (pc = "done" /\ ops = 0 /\ IsList(Get(file.doc, "mappings", PyList(<<>>)))) =>
        LET m == Get(file.doc, "mappings", PyList(<<>>)).v
        IN /\ Len(MappingsAccessor) = Len(m)
           /\ HasKey(file.doc, "mappings") \/ Len(MappingsAccessor) = 0
           /\ \A i \in 1..Len(m) :
                 /\ MappingsAccessor[i] = MappingOf(m[i]).val
                 /\ MappingsAccessor[i].source.table = SourceTableOf(m[i])

\* a document with two different entries, B before A, has been loaded
C9_Witness ==
    /\ pc = "done"
    /\ ops = 0
    /\ Get(file.doc, "mappings", PyList(<<>>)) = PyList(<<ItemB, ItemA>>)
    /\ Len(MappingsAccessor) = 2
    /\ MappingsAccessor[1].source.table = "b"
    /\ MappingsAccessor[2].source.table = "a"

---------------------------------------------------------------------------
(* C10: what the accessors return after construction.                      *)

\* C10: whatever the caller does through the accessors, the mappings read later
\* are the mappings read right after the load.
C10_MappingsNeverChange == pc = "done" => MappingsAccessor = loaded

---------------------------------------------------------------------------
(* C3, C5, C7: _db_info, called on sections of every combination of keys.  *)

Returned(f) == pc = "returned" /\ fn = f

Required == << "database", "user", "password" >>
AbsentRequired(item) == { k \in 1..3 : ~HasKey(item, Required[k]) }

\* C3: on a section that lacks required keys, _db_info raises one KeyError, naming
\* the first absent key in the order database, user, password, whatever else the
\* section holds; on a section with all three it raises nothing.
C3_FirstMissingField ==
    Returned("_db_info") =>
        IF AbsentRequired(fn_arg) = {}
        THEN fn_ret.ok
        ELSE /\ ~fn_ret.ok
             /\ fn_ret.exc.type = "KeyError"
             /\ Kind(fn_ret.exc) = "MissingField"
             /\ \E k \in AbsentRequired(fn_arg) :
                   /\ fn_ret.exc.arg = Required[k]
                   /\ \A j \in AbsentRequired(fn_arg) : k <= j

\* a section with host and password but neither database nor user has been refused
\* for database
C3_Witness ==
    /\ Returned("_db_info")
    /\ Keys(fn_arg) \cap { "database", "user", "password", "host" } = { "password", "host" }
    /\ fn_ret = Raise("KeyError", "database")

\* C5: an otherwise valid section whose port is the number 5433 yields an endpoint
\* whose port reads "5433".
C5_PortRoundTrip ==
    ( /\ Returned("_db_info")
      /\ AbsentRequired(fn_arg) = {}
      /\ HasKey(fn_arg, "port")
      /\ GetItem(fn_arg, "port") = PyInt(5433) )
    => (fn_ret.ok /\ fn_ret.val.port = "5433")

\* str() of each value the sections of the model hold, written out
Coerced(x) ==
    CASE x.t = "str" /\ x.v = "sales" -> "sales"
      [] x.t = "str" /\ x.v = "etl" -> "etl"
      [] x.t = "int" /\ x.v = 42 -> "42"
      [] x.t = "bool" /\ x.v = TRUE -> "True"
      [] x.t = "none" -> "None"
      [] x.t = "list" /\ x.v = <<PyStr("a"), PyInt(-7)>> -> "['a', -7]"
      [] x.t = "str" /\ x.v = "id" -> "id"
      [] x.t = "int" /\ x.v = 10 -> "10"

\* C7: a section of only database, user and password, of any values, yields host
\* "127.0.0.1", port "5432", and the three values as str() gives them.
C7_Defaults ==
    (Returned("_db_info") /\ Keys(fn_arg) = { "database", "user", "password" }) =>
        /\ fn_ret.ok
        /\ fn_ret.val.host = "127.0.0.1"
        /\ fn_ret.val.port = "5432"
        /\ fn_ret.val.database = Coerced(GetItem(fn_arg, "database"))
        /\ fn_ret.val.user = Coerced(GetItem(fn_arg, "user"))
        /\ fn_ret.val.password = Coerced(GetItem(fn_arg, "password"))

\* a section of database 42, user True and a list as password has been parsed
C7_Witness ==
    /\ Returned("_db_info")
    /\ Keys(fn_arg) = { "database", "user", "password" }
    /\ GetItem(fn_arg, "database") = PyInt(42)
    /\ GetItem(fn_arg, "user") = PyBool(TRUE)
    /\ GetItem(fn_arg, "password").t = "list"
    /\ fn_ret.ok
    /\ fn_ret.val.password = "['a', -7]"

---------------------------------------------------------------------------
(* C8: _table_info, called on sections of every shape of columns and pk.   *)

BadShape(item, key) == HasKey(item, key) /\ ~IsList(GetItem(item, key))
CoercedList(item, key) ==
    IF HasKey(item, key)
    THEN [i \in 1..Len(GetItem(item, key).v) |-> Coerced(GetItem(item, key).v[i])]
    ELSE <<>>

\* C8: a table section whose columns or pk is present and not a list is refused as
\* InvalidShape; one whose columns and pk are each absent or a list, and that names
\* its table, is parsed, columns and pk being the str() of the elements in order.
C8_ShapeValidation ==
    Returned("_table_info") =>
        /\ (BadShape(fn_arg, "columns") \/ BadShape(fn_arg, "pk")) =>
              /\ ~fn_ret.ok
              /\ Kind(fn_ret.exc) = "InvalidShape"
              /\ fn_ret.exc.arg = (IF BadShape(fn_arg, "columns") THEN "columns" ELSE "pk")
        /\ (~BadShape(fn_arg, "columns") /\ ~BadShape(fn_arg, "pk") /\ HasKey(fn_arg, "table")) =>
              /\ fn_ret.ok
              /\ fn_ret.val.columns = CoercedList(fn_arg, "columns")
              /\ fn_ret.val.pk = CoercedList(fn_arg, "pk")

\* a section with columns [10, "id"], pk [] and a table has been parsed
C8_Witness ==
    /\ Returned("_table_info")
    /\ HasKey(fn_arg, "columns")
    /\ GetItem(fn_arg, "columns") = PyList(<<PyInt(10), PyStr("id")>>)
    /\ HasKey(fn_arg, "pk")
    /\ GetItem(fn_arg, "pk") = PyList(<<>>)
    /\ fn_ret.ok
    /\ fn_ret.val.columns = <<"10", "id">>
    /\ fn_ret.val.pk = <<>>

====
